---- MODULE Spec2Model ----
(***************************************************************************)
(* Real-time messaging core of the OpenCircle application:                 *)
(*   - the process-wide Waku light-node session (lib/waku/client.ts),      *)
(*   - the message list of ChatRoom and DirectMessage (addMessage),        *)
(*   - the content-topic functions (lib/waku/topics.ts).                   *)
(* Strings that the code composes, splits or compares are sequences of     *)
(* one-character strings; strings the code only carries are TLA+ strings.  *)
(***************************************************************************)
EXTENDS Integers, Sequences, FiniteSets, TLC

(***************************************************************************)
(* Bounds of the model.                                                    *)
(***************************************************************************)
\* number of getWakuNode calls issued
MaxCalls == 3
\* number of stopWakuNode calls issued
MaxStops == 2
\* number of addMessage deliveries to one message list
MaxDeliveries == 3
\* length of an identifier handed to the topic functions
MaxLen == 2
\* length of a payload that was not made by encodeMessage
MaxPayload == 3
\* number of sendMessage calls in one view
MaxSends == 2
\* number of runs of the setup effect of one view (mount, then dependency changes)
MaxRuns == 2

VARIABLES
  \* ---- lib/waku/client.ts ----
  wakuNode,      \* module-level client: 0 is null, k > 0 the k-th client object
  nClients,      \* client objects produced by createLightNode so far
  createCalls,   \* createLightNode invocations so far
  started,       \* clients on which start() was invoked
  stopCalls,     \* per client, the number of stop() invocations
  gpc,           \* per getWakuNode call: where the async function stands
  gwaitOn,       \* per getWakuNode call in its peer wait: the client it waits on
  returned,      \* the values getWakuNode calls have resolved with so far
  lastWait,      \* how the most recent peer wait ended
  spc,           \* per stopWakuNode call: "idle", "stopping" (suspended on stop()), "done" or "failed"
  stopOverlap,   \* two stopWakuNode calls were in progress at the same time
  stopRaced,     \* stopWakuNode was called while a getWakuNode call was in progress
  \* ---- ChatRoom / DirectMessage message list ----
  view,          \* which component owns the list: "room", "dm" (or "none")
  messages,      \* the `messages` React state of that component
  arrivals,      \* every addMessage call so far: <<message, path>>, in call order
  \* ---- lib/waku/topics.ts ----
  idA, idB,      \* the identifiers handed to the topic functions
  dmTopic,       \* contentTopic of the two DirectMessage views of one conversation
  spaceTopic,    \* contentTopic of the ChatRoom of space idA
  parsed,        \* parseContentTopic(spaceTopic)
  anyTopic,      \* a string handed to parseContentTopic
  anyParsed,     \* parseContentTopic(anyTopic)
  \* ---- lib/waku/messages.ts ----
  outgoing,      \* the message a sender hands to encodeMessage (or NoMessage)
  payload,       \* the payload of a message on the network (or NoPayload, Undefined)
  decoded,       \* what decodeMessage returned to the live callback
  \* ---- ChatRoom / DirectMessage sendMessage ----
  inputMessage,  \* the `inputMessage` React state
  isSending,     \* the `isSending` React state
  sendPc,        \* sendMessage: "idle", or "awaiting" node.lightPush.send
  wakuMessage,   \* the message built by the sendMessage call in progress or last made
  sendAttempts,  \* sendMessage calls so far
  encodeCalls,   \* encodeMessage calls made by sendMessage so far
  publishCalls,  \* node.lightPush.send calls so far
  userErrors,    \* failure indications shown to the user so far (alert)
  clock,         \* the latest Date.now() reading of this user
  lastResult,    \* how the latest publish ended: "success", "zero", "throw" (or "none")
  \* ---- ChatRoom / DirectMessage setup effect ----
  alive,         \* the view is mounted
  run,           \* the latest run of the setup effect (0 before the mount)
  setupPc,       \* per run, where setup() stands
  subState,      \* per run, its live subscription: "none", "active" or "cancelled"
  historyResult, \* per run, how its history query ended: "resolved", "rejected" (or "none")
  cleaned,       \* per run, whether the cleanup of that run has been executed
  subscriptionRef, \* subscriptionRef.current: 0 is null, r the cancel handle of run r
  isLoading,     \* the `isLoading` (DirectMessage: `isLoadingHistory`) React state
  \* ---- WakuProvider ----
  mounted,       \* the `mounted` variable of the provider's effect
  node,          \* the `node` React state: 0 is null, k the k-th client
  isConnecting,  \* the `isConnecting` React state
  error,         \* the `error` React state: "null" or the message
  initPc         \* initWaku: "idle", "awaiting" getWakuNode, or "done"

sessionVars == <<wakuNode, nClients, createCalls, started, stopCalls, gpc, gwaitOn,
                 returned, lastWait, spc, stopOverlap, stopRaced>>
mergeVars == <<view, messages, arrivals>>
topicVars == <<idA, idB, dmTopic, spaceTopic, parsed>>
parseVars == <<anyTopic, anyParsed>>
codecVars == <<outgoing, payload, decoded>>
sendVars == <<inputMessage, isSending, sendPc, wakuMessage, sendAttempts, encodeCalls,
              publishCalls, userErrors, clock, lastResult>>
viewVars == <<alive, run, setupPc, subState, historyResult, cleaned, subscriptionRef, isLoading>>
providerVars == <<mounted, node, isConnecting, error, initPc>>
vars == <<sessionVars, mergeVars, topicVars, parseVars, codecVars, sendVars, viewVars,
          providerVars>>

(***************************************************************************)
(* The session: getWakuNode and stopWakuNode of lib/waku/client.ts.        *)
(* Each async function is cut at its awaits; everything between two awaits *)
(* runs in one step, as on the single event-loop thread.  A getWakuNode    *)
(* call is "idle" (not issued), at "create", "start" or "wait" (suspended  *)
(* on createLightNode, on start(), on the peer wait), or has "resolved" or *)
(* "rejected".                                                             *)
(***************************************************************************)
Calls == 1..MaxCalls
Stops == 1..MaxStops
Clients == 1..MaxCalls

SessionInit ==
  /\ wakuNode = 0
  /\ nClients = 0
  /\ createCalls = 0
  /\ started = {}
  /\ stopCalls = [k \in Clients |-> 0]
  /\ gpc = [c \in Calls |-> "idle"]
  /\ gwaitOn = [c \in Calls |-> 0]
  /\ returned = {}
  /\ lastWait = "none"
  /\ spc = [s \in Stops |-> "idle"]
  /\ stopOverlap = FALSE
  /\ stopRaced = FALSE

\* getWakuNode is called (calls are numbered in the order they are issued):
\* `if (wakuNode) return wakuNode`, else createLightNode is invoked and the
\* call suspends on it.
GetWakuNodeCall(c) ==
  /\ gpc[c] = "idle"
  /\ \A d \in Calls : d < c => gpc[d] # "idle"
  /\ IF wakuNode # 0
       THEN /\ gpc' = [gpc EXCEPT ![c] = "resolved"]
            /\ returned' = returned \cup {wakuNode}
            /\ UNCHANGED createCalls
       ELSE /\ gpc' = [gpc EXCEPT ![c] = "create"]
            /\ createCalls' = createCalls + 1
            /\ UNCHANGED returned
  /\ UNCHANGED <<wakuNode, nClients, started, stopCalls, gwaitOn, lastWait, spc, stopOverlap, stopRaced>>

\* createLightNode resolves: `wakuNode = <new client>`, then wakuNode.start()
\* is invoked on it and the call suspends again.
CreateLightNodeResolve(c) ==
  /\ gpc[c] = "create"
  /\ nClients' = nClients + 1
  /\ wakuNode' = nClients + 1
  /\ started' = started \cup {nClients + 1}
  /\ gpc' = [gpc EXCEPT ![c] = "start"]
  /\ UNCHANGED <<createCalls, stopCalls, gwaitOn, returned, lastWait, spc, stopOverlap, stopRaced>>

\* createLightNode rejects: the assignment never happens, getWakuNode rejects.
CreateLightNodeReject(c) ==
  /\ gpc[c] = "create"
  /\ gpc' = [gpc EXCEPT ![c] = "rejected"]
  /\ UNCHANGED <<wakuNode, nClients, createCalls, started, stopCalls, gwaitOn, returned,
                 lastWait, spc, stopOverlap, stopRaced>>

\* start() resolves: the try block calls waitForRemotePeer(wakuNode, ...) with
\* the module-level client as it is now, and races it against the 30 s timer.
StartResolve(c) ==
  /\ gpc[c] = "start"
  /\ gpc' = [gpc EXCEPT ![c] = "wait"]
  /\ gwaitOn' = [gwaitOn EXCEPT ![c] = wakuNode]
  /\ UNCHANGED <<wakuNode, nClients, createCalls, started, stopCalls, returned, lastWait,
                 spc, stopOverlap, stopRaced>>

\* start() rejects: outside the try block, so getWakuNode rejects; the
\* module-level client is left as it is.
StartReject(c) ==
  /\ gpc[c] = "start"
  /\ gpc' = [gpc EXCEPT ![c] = "rejected"]
  /\ UNCHANGED <<wakuNode, nClients, createCalls, started, stopCalls, gwaitOn, returned,
                 lastWait, spc, stopOverlap, stopRaced>>

PeerWaitEnd_Rethrow(c, how) ==
  /\ gpc[c] = "wait"
  /\ lastWait' = how
  /\ gwaitOn' = [gwaitOn EXCEPT ![c] = 0]
  /\ IF how = "peer"
       THEN /\ gpc' = [gpc EXCEPT ![c] = "resolved"]
            /\ returned' = returned \cup {wakuNode}
            /\ UNCHANGED wakuNode
       ELSE /\ gpc' = [gpc EXCEPT ![c] = "rejected"]
            /\ wakuNode' = 0
            /\ UNCHANGED returned
  /\ UNCHANGED <<nClients, createCalls, started, stopCalls, spc, stopOverlap, stopRaced>>

\* The end of the try/catch: whether the race resolved or its rejection was
\* caught, `return wakuNode`.
PeerWaitEnd(c, how) ==
  /\ gpc[c] = "wait"
  /\ gpc' = [gpc EXCEPT ![c] = "resolved"]
  /\ returned' = returned \cup {wakuNode}
  /\ lastWait' = how
  /\ gwaitOn' = [gwaitOn EXCEPT ![c] = 0]
  /\ UNCHANGED <<wakuNode, nClients, createCalls, started, stopCalls, spc, stopOverlap, stopRaced>>

\* waitForRemotePeer resolves first: a LightPush/Filter peer was found.
PeerWaitResolve(c) ==
  /\ gwaitOn[c] # 0
  /\ PeerWaitEnd(c, "peer")

PeerWaitTimeout_NoTimer(c) ==
  /\ FALSE
  /\ PeerWaitEnd(c, "timeout")

\* The 30 s timer rejects first: caught, console.warn, continue.
PeerWaitTimeout(c) ==
  /\ gwaitOn[c] # 0
  /\ PeerWaitEnd(c, "timeout")

\* waitForRemotePeer rejects first (also when it was handed null): caught.
PeerWaitReject(c) ==
  PeerWaitEnd(c, "error")

\* stopWakuNode is called (calls are numbered in the order they are issued):
\* `if (wakuNode)` invokes wakuNode.stop() and suspends on it; with no client
\* the function returns at once.
StopWakuNodeCall(s) ==
  /\ spc[s] = "idle"
  /\ \A t \in Stops : t < s => spc[t] # "idle"
  /\ IF wakuNode # 0
       THEN /\ spc' = [spc EXCEPT ![s] = "stopping"]
            /\ stopCalls' = [stopCalls EXCEPT ![wakuNode] = @ + 1]
            /\ stopOverlap' = (stopOverlap \/ \E t \in Stops : spc[t] = "stopping")
       ELSE /\ spc' = [spc EXCEPT ![s] = "done"]
            /\ UNCHANGED <<stopCalls, stopOverlap>>
  /\ stopRaced' = (stopRaced \/ \E c \in Calls : gpc[c] \in {"create", "start", "wait"})
  /\ UNCHANGED <<wakuNode, nClients, createCalls, started, gpc, gwaitOn, returned, lastWait>>

StopResolve_KeepClient(s) ==
  /\ spc[s] = "stopping"
  /\ spc' = [spc EXCEPT ![s] = "done"]
  /\ UNCHANGED <<wakuNode, nClients, createCalls, started, stopCalls, gpc, gwaitOn,
                 returned, lastWait, stopOverlap, stopRaced>>

\* stop() resolves: `wakuNode = null`.
StopResolve(s) ==
  /\ spc[s] = "stopping"
  /\ spc' = [spc EXCEPT ![s] = "done"]
  /\ wakuNode' = 0
  /\ UNCHANGED <<nClients, createCalls, started, stopCalls, gpc, gwaitOn, returned,
                 lastWait, stopOverlap, stopRaced>>

\* stop() rejects: the assignment is skipped and stopWakuNode rejects.
StopReject(s) ==
  /\ spc[s] = "stopping"
  /\ spc' = [spc EXCEPT ![s] = "failed"]
  /\ UNCHANGED <<wakuNode, nClients, createCalls, started, stopCalls, gpc, gwaitOn,
                 returned, lastWait, stopOverlap, stopRaced>>

(***************************************************************************)
(* The message list: addMessage of ChatRoom and of DirectMessage.          *)
(***************************************************************************)
Timestamps == {100, 200, 300}
Senders == {<<"a">>, <<"b">>}
Contents == {"hi", "old"}
\* currentUserId of the component, the sender of its optimistic inserts
CurrentUser == <<"a">>
\* a decoded chat message (Message of lib/waku/messages.ts)
WakuMessages == [timestamp : Timestamps, sender : Senders, content : Contents]
Paths == {"live", "history", "optimistic"}

Digit(d) == <<"0", "1", "2", "3", "4", "5", "6", "7", "8", "9">>[d + 1]

\* `${n}` for a non-negative integer n: its decimal digits
RECURSIVE NumberToString(_)
NumberToString(n) ==
  IF n < 10 THEN <<Digit(n)>> ELSE NumberToString(n \div 10) \o <<Digit(n % 10)>>

\* NumberToString over the timestamps of the model, computed once
TimestampString == [n \in Timestamps |-> NumberToString(n)]

\* `${timestamp}-${sender}`
IdentityKey(timestamp, sender) ==
  (IF timestamp \in DOMAIN TimestampString THEN TimestampString[timestamp]
                                           ELSE NumberToString(timestamp))
    \o <<"-">> \o sender

RECURSIVE SortByTimestamp_BeforeEqual(_)
SortByTimestamp_BeforeEqual(s) ==
  IF Len(s) <= 1 THEN s
  ELSE LET front == SortByTimestamp_BeforeEqual(SubSeq(s, 1, Len(s) - 1))
           x == s[Len(s)]
           p == Cardinality({i \in 1..Len(front) : front[i].timestamp - x.timestamp < 0})
       IN SubSeq(front, 1, p) \o <<x>> \o SubSeq(front, p + 1, Len(front))

\* Array.prototype.sort((a, b) => a.timestamp - b.timestamp): a stable sort,
\* computed by inserting each element after the elements that do not compare
\* greater than it.
RECURSIVE SortByTimestamp(_)
SortByTimestamp(s) ==
  IF Len(s) <= 1 THEN s
  ELSE LET front == SortByTimestamp(SubSeq(s, 1, Len(s) - 1))
           x == s[Len(s)]
           p == Cardinality({i \in 1..Len(front) : front[i].timestamp - x.timestamp <= 0})
       IN SubSeq(front, 1, p) \o <<x>> \o SubSeq(front, p + 1, Len(front))

RoomAddMessage_Upsert(prev, msg) ==
  LET key == IdentityKey(msg.timestamp, msg.sender)
      newMessage == [id |-> key, content |-> msg.content,
                     author |-> msg.sender, timestamp |-> msg.timestamp]
      rest == SelectSeq(prev, LAMBDA m : IdentityKey(m.timestamp, m.author) # key)
  IN SortByTimestamp(Append(rest, newMessage))

RoomAddMessage_NoDedup(prev, msg) ==
  LET key == IdentityKey(msg.timestamp, msg.sender)
      newMessage == [id |-> key, content |-> msg.content,
                     author |-> msg.sender, timestamp |-> msg.timestamp]
  IN SortByTimestamp(Append(prev, newMessage))

RoomAddMessage_NoSort(prev, msg) ==
  LET key == IdentityKey(msg.timestamp, msg.sender)
      exists == \E i \in 1..Len(prev) :
                  IdentityKey(prev[i].timestamp, prev[i].author) = key
      newMessage == [id |-> key, content |-> msg.content,
                     author |-> msg.sender, timestamp |-> msg.timestamp]
  IN IF exists THEN prev ELSE Append(prev, newMessage)

\* ChatRoom.addMessage: the updater handed to setMessages
RoomAddMessage(prev, msg) ==
  LET key == IdentityKey(msg.timestamp, msg.sender)
      exists == \E i \in 1..Len(prev) :
                  IdentityKey(prev[i].timestamp, prev[i].author) = key
      newMessage == [id |-> key, content |-> msg.content,
                     author |-> msg.sender, timestamp |-> msg.timestamp]
  IN IF exists THEN prev ELSE SortByTimestamp(Append(prev, newMessage))

DmAddMessage_NoSort(prev, msg) ==
  LET key == IdentityKey(msg.timestamp, msg.sender)
      exists == \E i \in 1..Len(prev) :
                  IdentityKey(prev[i].timestamp, prev[i].sender) = key
  IN IF exists THEN prev ELSE Append(prev, msg)

\* DirectMessage.addMessage: the updater handed to setMessages
DmAddMessage(prev, msg) ==
  LET key == IdentityKey(msg.timestamp, msg.sender)
      exists == \E i \in 1..Len(prev) :
                  IdentityKey(prev[i].timestamp, prev[i].sender) = key
  IN IF exists THEN prev ELSE SortByTimestamp(Append(prev, msg))

\* addMessage of the component that owns the list
AddMessage(msg) ==
  messages' = IF view = "room" THEN RoomAddMessage(messages, msg)
                               ELSE DmAddMessage(messages, msg)

MergeInit ==
  /\ messages = <<>>
  /\ arrivals = <<>>

Deliver(msg, path) ==
  /\ view \in {"room", "dm"}
  /\ Len(arrivals) < MaxDeliveries
  /\ AddMessage(msg)
  /\ arrivals' = Append(arrivals, <<msg, path>>)
  /\ UNCHANGED view

\* the node.filter.subscribe callback, for a payload that decoded to msg
LiveCallback(msg) == Deliver(msg, "live")

\* the node.store.queryWithOrderedCallback callback, for a payload that decoded to msg
HistoryCallback(msg) == Deliver(msg, "history")

\* sendMessage after result.successes.length > 0: addMessage of the own message
OptimisticInsert(msg) ==
  /\ msg.sender = CurrentUser
  /\ Deliver(msg, "optimistic")

(***************************************************************************)
(* The content topics: lib/waku/topics.ts.                                 *)
(***************************************************************************)
Alphabet == {"a", "b", "-", "/"}

\* the UTF-16 code unit of a character, the order String comparison uses
\* ("U+E9" stands for the one character e-acute)
CharCode(ch) ==
  CASE ch = "-" -> 45
    [] ch = "/" -> 47
    [] ch = "a" -> 97
    [] ch = "b" -> 98
    [] ch = "U+E9" -> 233

\* the strings over Alphabet of length at most n
RECURSIVE StringsUpTo(_)
StringsUpTo(n) ==
  IF n = 0 THEN {<<>>}
  ELSE LET shorter == StringsUpTo(n - 1)
       IN shorter \cup {Append(s, ch) : s \in shorter, ch \in Alphabet}

Ids == StringsUpTo(MaxLen)

\* x < y on strings: by code units, a proper prefix first
RECURSIVE StringLess(_, _)
StringLess(x, y) ==
  IF y = <<>> THEN FALSE
  ELSE IF x = <<>> THEN TRUE
  ELSE IF CharCode(Head(x)) # CharCode(Head(y)) THEN CharCode(Head(x)) < CharCode(Head(y))
  ELSE StringLess(Tail(x), Tail(y))

\* [x, y].sort(): ascending by string comparison, equal elements keep their order
SortPair(x, y) == IF StringLess(y, x) THEN <<y, x>> ELSE <<x, y>>

\* "/opencircle/1/"
TopicHead == <<"/", "o", "p", "e", "n", "c", "i", "r", "c", "l", "e", "/", "1", "/">>
\* "/proto"
TopicTail == <<"/", "p", "r", "o", "t", "o">>
AppName == <<"o", "p", "e", "n", "c", "i", "r", "c", "l", "e">>
Version == <<"1">>
CommunityPrefix == <<"c", "o", "m", "m", "u", "n", "i", "t", "y", "-">>
SpacePrefix == <<"s", "p", "a", "c", "e", "-">>
DmPrefix == <<"d", "m", "-">>

\* `/opencircle/1/community-${communityId}/proto`
getCommunityTopic(communityId) == TopicHead \o CommunityPrefix \o communityId \o TopicTail

\* `/opencircle/1/space-${spaceId}/proto`
getSpaceTopic(spaceId) == TopicHead \o SpacePrefix \o spaceId \o TopicTail

getDirectMessageTopic_Unsorted(userId1, userId2) ==
  TopicHead \o DmPrefix \o userId1 \o <<"-">> \o userId2 \o TopicTail

\* `/opencircle/1/dm-${user1}-${user2}/proto` with [user1, user2] the sorted pair
getDirectMessageTopic(userId1, userId2) ==
  LET sorted == SortPair(userId1, userId2)
  IN TopicHead \o DmPrefix \o sorted[1] \o <<"-">> \o sorted[2] \o TopicTail

\* s.split(sep) for a one-character separator
RECURSIVE Split(_, _)
Split(s, sep) ==
  IF \A i \in 1..Len(s) : s[i] # sep THEN <<s>>
  ELSE LET i == CHOOSE j \in 1..Len(s) :
                  s[j] = sep /\ \A k \in 1..(j - 1) : s[k] # sep
       IN <<SubSeq(s, 1, i - 1)>> \o Split(SubSeq(s, i + 1, Len(s)), sep)

\* s.startsWith(prefix)
StartsWith(s, prefix) ==
  Len(s) >= Len(prefix) /\ SubSeq(s, 1, Len(prefix)) = prefix

\* s.replace(pattern, ''): the first occurrence of pattern removed
RemoveFirst(s, pattern) ==
  LET hits == {i \in 1..(Len(s) - Len(pattern) + 1) :
                 SubSeq(s, i, i + Len(pattern) - 1) = pattern}
  IN IF hits = {} THEN s
     ELSE LET i == CHOOSE j \in hits : \A k \in hits : j <= k
          IN SubSeq(s, 1, i - 1) \o SubSeq(s, i + Len(pattern), Len(s))

Unknown == [type |-> "unknown", id |-> <<>>]

parseContentTopic(topic) ==
  LET parts == Split(topic, "/")
  IN IF Len(parts) # 5 THEN Unknown
     ELSE LET app == parts[2]
              version == parts[3]
              contentTopic == parts[4]
          IN IF app # AppName \/ version # Version THEN Unknown
             ELSE IF StartsWith(contentTopic, CommunityPrefix)
               THEN [type |-> "community", id |-> RemoveFirst(contentTopic, CommunityPrefix)]
             ELSE IF StartsWith(contentTopic, SpacePrefix)
               THEN [type |-> "space", id |-> RemoveFirst(contentTopic, SpacePrefix)]
             ELSE IF StartsWith(contentTopic, DmPrefix)
               THEN [type |-> "dm", id |-> RemoveFirst(contentTopic, DmPrefix)]
             ELSE Unknown

NotComputed == <<>>
NotParsed == [type |-> "none", id |-> <<>>]

TopicInit ==
  /\ dmTopic = [v \in {1, 2} |-> NotComputed]
  /\ spaceTopic = NotComputed
  /\ parsed = NotParsed

\* DirectMessage of user idA talking to idB (v = 1), or of idB talking to idA
\* (v = 2): contentTopic = getDirectMessageTopic(currentUserId, recipientUserId)
DirectMessageTopic(v) ==
  /\ dmTopic[v] = NotComputed
  /\ dmTopic' = [dmTopic EXCEPT ![v] = IF v = 1 THEN getDirectMessageTopic(idA, idB)
                                                ELSE getDirectMessageTopic(idB, idA)]
  /\ UNCHANGED <<idA, idB, spaceTopic, parsed>>

\* ChatRoom of space idA: contentTopic = getSpaceTopic(spaceId)
ChatRoomTopic ==
  /\ spaceTopic = NotComputed
  /\ spaceTopic' = getSpaceTopic(idA)
  /\ UNCHANGED <<idA, idB, dmTopic, parsed>>

\* parseContentTopic applied to the topic of the space
ParseSpaceTopic ==
  /\ spaceTopic # NotComputed
  /\ parsed = NotParsed
  /\ parsed' = parseContentTopic(spaceTopic)
  /\ UNCHANGED <<idA, idB, dmTopic, spaceTopic>>

\* parts.join('/')
RECURSIVE Join(_)
Join(parts) ==
  IF Len(parts) = 1 THEN parts[1]
  ELSE parts[1] \o <<"/">> \o Join(Tail(parts))

\* The strings handed to parseContentTopic: '/'-joined segments that are, or
\* deviate from, those of the documented format
\* /{application-name}/{version}/{content-topic-name}/{encoding}.
LeadSegments == {<<>>, <<"b">>}
AppSegments == {AppName, <<"a">>}
VersionSegments == {Version, <<"b">>}
NamePrefixes == {CommunityPrefix, SpacePrefix, DmPrefix, <<"a", "-">>}
NameSegments == {prefix \o id : prefix \in NamePrefixes, id \in Ids}
EncodingSegments == {<<"p", "r", "o", "t", "o">>, <<"a">>}
AnyTopics ==
  {Join(<<lead, app, version, name, encoding>>) :
     lead \in LeadSegments, app \in AppSegments, version \in VersionSegments,
     name \in NameSegments, encoding \in EncodingSegments}
  \cup {Join(<<lead, app, version, name>>) :
     lead \in LeadSegments, app \in AppSegments, version \in VersionSegments,
     name \in NameSegments}

\* s.endsWith(suffix)
EndsWith(s, suffix) ==
  Len(s) >= Len(suffix) /\ SubSeq(s, Len(s) - Len(suffix) + 1, Len(s)) = suffix

\* topic is a value of getCommunityTopic, getSpaceTopic or
\* getDirectMessageTopic: the fixed head and tail around community-<id>,
\* space-<id> or dm-<user1>-<user2> with user1, user2 in sorted order
IsConstructed(topic) ==
  /\ Len(topic) >= Len(TopicHead) + Len(TopicTail)
  /\ StartsWith(topic, TopicHead)
  /\ EndsWith(topic, TopicTail)
  /\ LET name == SubSeq(topic, Len(TopicHead) + 1, Len(topic) - Len(TopicTail))
         pair == SubSeq(name, Len(DmPrefix) + 1, Len(name))
     IN \/ StartsWith(name, CommunityPrefix)
        \/ StartsWith(name, SpacePrefix)
        \/ /\ StartsWith(name, DmPrefix)
           /\ \E i \in 1..Len(pair) :
                /\ pair[i] = "-"
                /\ ~StringLess(SubSeq(pair, i + 1, Len(pair)), SubSeq(pair, 1, i - 1))

ParseInit ==
  /\ anyTopic = NotComputed
  /\ anyParsed = NotParsed

\* parseContentTopic(anyTopic)
ParseAnyTopic ==
  /\ anyParsed = NotParsed
  /\ anyParsed' = parseContentTopic(anyTopic)
  /\ UNCHANGED anyTopic

(***************************************************************************)
(* The codec: lib/waku/messages.ts.  ChatMessage is the protobuf type      *)
(*   1: uint64 timestamp, 2: string sender, 3: string content              *)
(* and a payload is a sequence of bytes (0..255) in the protobuf wire      *)
(* format, written and read as the protobufjs Writer and Reader do.        *)
(***************************************************************************)
\* the character with a given UTF-16 code unit
FromCharCode(code) ==
  CASE code = 45 -> "-"
    [] code = 47 -> "/"
    [] code = 97 -> "a"
    [] code = 98 -> "b"
    [] code = 233 -> "U+E9"
    [] OTHER -> "U+" \o ToString(code)

\* Writer.uint32 / Writer.uint64: base-128 varint, low group first
RECURSIVE Varint(_)
Varint(n) ==
  IF n < 128 THEN <<n>> ELSE <<(n % 128) + 128>> \o Varint(n \div 128)

\* utf8.write for one character outside the surrogate range
Utf8Char(code) ==
  IF code < 128 THEN <<code>>
  ELSE IF code < 2048 THEN <<192 + (code \div 64), 128 + (code % 64)>>
  ELSE <<224 + (code \div 4096), 128 + ((code \div 64) % 64), 128 + (code % 64)>>

RECURSIVE Utf8Write(_)
Utf8Write(str) ==
  IF str = <<>> THEN <<>> ELSE Utf8Char(CharCode(Head(str))) \o Utf8Write(Tail(str))

\* Writer.string: the byte length, then the UTF-8 bytes
WriteString(str) == Varint(Len(Utf8Write(str))) \o Utf8Write(str)

encodeMessage_CharCount(message) ==
  <<8>> \o Varint(message.timestamp)
    \o <<18>> \o Varint(Len(message.sender)) \o Utf8Write(message.sender)
    \o <<26>> \o Varint(Len(message.content)) \o Utf8Write(message.content)

\* encodeMessage: ChatMessage.create copies the three fields, encode writes
\* each of them with its tag (field number * 8 + wire type)
encodeMessage(message) ==
  <<8>> \o Varint(message.timestamp)
    \o <<18>> \o WriteString(message.sender)
    \o <<26>> \o WriteString(message.content)

\* a read that ran past the end of the buffer or met an invalid wire type
ReadError == [ok |-> FALSE]

\* Reader.uint32 / Reader.uint64 at index pos (from 1): value and next index
RECURSIVE ReadVarint(_, _)
ReadVarint(buf, pos) ==
  IF pos > Len(buf) THEN ReadError
  ELSE IF buf[pos] < 128 THEN [ok |-> TRUE, value |-> buf[pos], pos |-> pos + 1]
  ELSE LET rest == ReadVarint(buf, pos + 1)
       IN IF ~rest.ok THEN ReadError
          ELSE [ok |-> TRUE, value |-> (buf[pos] % 128) + 128 * rest.value, pos |-> rest.pos]

\* bytes[i] & 63, with a read past the end giving 0
Low6(bytes, i) == IF i <= Len(bytes) THEN bytes[i] % 64 ELSE 0

\* utf8.read: lenient, never throws
RECURSIVE Utf8Read(_, _)
Utf8Read(bytes, i) ==
  IF i > Len(bytes) THEN <<>>
  ELSE LET t == bytes[i]
       IN IF t < 128 THEN <<FromCharCode(t)>> \o Utf8Read(bytes, i + 1)
          ELSE IF t > 191 /\ t < 224
            THEN <<FromCharCode((t % 32) * 64 + Low6(bytes, i + 1))>> \o Utf8Read(bytes, i + 2)
          ELSE IF t > 239
            THEN LET v == (t % 8) * 262144 + Low6(bytes, i + 1) * 4096
                            + Low6(bytes, i + 2) * 64 + Low6(bytes, i + 3) - 65536
                 IN <<FromCharCode(55296 + (v \div 1024)), FromCharCode(56320 + (v % 1024))>>
                      \o Utf8Read(bytes, i + 4)
          ELSE <<FromCharCode((t % 16) * 4096 + Low6(bytes, i + 1) * 64 + Low6(bytes, i + 2))>>
                 \o Utf8Read(bytes, i + 3)

\* Reader.string: a length, then that many bytes
ReadString(buf, pos) ==
  LET length == ReadVarint(buf, pos)
  IN IF ~length.ok THEN ReadError
     ELSE IF length.pos + length.value > Len(buf) + 1 THEN ReadError
     ELSE [ok |-> TRUE,
           value |-> Utf8Read(SubSeq(buf, length.pos, length.pos + length.value - 1), 1),
           pos |-> length.pos + length.value]

\* Reader.skip(length)
Skip(buf, pos, length) ==
  IF pos + length > Len(buf) + 1 THEN ReadError ELSE [ok |-> TRUE, pos |-> pos + length]

\* Reader.skipType(wireType), SkipGroup being its loop up to the end-group tag
RECURSIVE SkipType(_, _, _)
RECURSIVE SkipGroup(_, _)
SkipType(buf, pos, wireType) ==
  CASE wireType = 0 -> LET v == ReadVarint(buf, pos)
                       IN IF v.ok THEN [ok |-> TRUE, pos |-> v.pos] ELSE ReadError
    [] wireType = 1 -> Skip(buf, pos, 8)
    [] wireType = 2 -> LET length == ReadVarint(buf, pos)
                       IN IF length.ok THEN Skip(buf, length.pos, length.value) ELSE ReadError
    [] wireType = 3 -> SkipGroup(buf, pos)
    [] wireType = 5 -> Skip(buf, pos, 4)
    [] OTHER -> ReadError

SkipGroup(buf, pos) ==
  LET tag == ReadVarint(buf, pos)
  IN IF ~tag.ok THEN ReadError
     ELSE IF tag.value % 8 = 4 THEN [ok |-> TRUE, pos |-> tag.pos]
     ELSE LET inner == SkipType(buf, tag.pos, tag.value % 8)
          IN IF inner.ok THEN SkipGroup(buf, inner.pos) ELSE ReadError

\* ChatMessage.decode: `while (r.pos < end)` read a tag and, by its field
\* number, the field; unknown fields are skipped by their wire type.  A
\* field that does not occur keeps its default (0, '').
RECURSIVE DecodeFields(_, _, _)
DecodeFields(buf, pos, data) ==
  IF pos > Len(buf) THEN [ok |-> TRUE, data |-> data]
  ELSE LET tag == ReadVarint(buf, pos)
       IN IF ~tag.ok THEN ReadError
          ELSE LET field == tag.value \div 8
                   read == CASE field = 1 -> ReadVarint(buf, tag.pos)
                             [] field = 2 -> ReadString(buf, tag.pos)
                             [] field = 3 -> ReadString(buf, tag.pos)
                             [] OTHER -> SkipType(buf, tag.pos, tag.value % 8)
               IN IF ~read.ok THEN ReadError
                  ELSE DecodeFields(buf, read.pos,
                         CASE field = 1 -> [data EXCEPT !.timestamp = read.value]
                           [] field = 2 -> [data EXCEPT !.sender = read.value]
                           [] field = 3 -> [data EXCEPT !.content = read.value]
                           [] OTHER -> data)

Null == [null |-> TRUE]
Undefined == [undefined |-> TRUE]
NoPayload == [none |-> TRUE]
NoMessage == [none |-> TRUE]
NotDecoded == [none |-> TRUE]

\* decodeMessage: `if (!payload) return null` (a Uint8Array, even an empty
\* one, is truthy), then decode inside try/catch
decodeMessage(p) ==
  IF p = Undefined THEN Null
  ELSE LET result == DecodeFields(p.bytes, 1, [timestamp |-> 0, sender |-> <<>>, content |-> <<>>])
       IN IF result.ok THEN result.data ELSE Null

\* the messages handed to encodeMessage: timestamps of one, two, three and
\* five varint bytes, strings with and without a two-byte character
CodecTimestamps == {0, 1, 127, 128, 300, 16384, 1700000000}
CodecStrings == {<<>>, <<"a">>, <<"b", "U+E9">>}
CodecMessages == [timestamp : CodecTimestamps, sender : CodecStrings, content : CodecStrings]

\* the byte sequences of length up to n over a set of bytes
RECURSIVE BytesUpTo(_, _)
BytesUpTo(bytes, n) ==
  IF n = 0 THEN {<<>>}
  ELSE LET shorter == BytesUpTo(bytes, n - 1)
       IN shorter \cup {Append(b, x) : b \in shorter, x \in bytes}

\* payloads that did not come out of encodeMessage (whose output has at least
\* six bytes: three tags, a varint and two lengths): tags of fields 1 and 2,
\* of an unknown field as varint (32) and as group (35), small values, a
\* letter, and 255
ForeignBytes == {0, 1, 8, 18, 32, 35, 97, 255}
ForeignPayloads == {[bytes |-> b] : b \in BytesUpTo(ForeignBytes, MaxPayload)}

CodecInit ==
  /\ outgoing = NoMessage
  /\ payload = NoPayload
  /\ decoded = NotDecoded

\* sendMessage: `const payload = encodeMessage(wakuMessage)`, published
SenderEncodes ==
  /\ outgoing # NoMessage
  /\ payload = NoPayload
  /\ payload' = [bytes |-> encodeMessage(outgoing)]
  /\ UNCHANGED <<outgoing, decoded, mergeVars>>

\* the subscribe callback of a view, for a message with this payload:
\* `const decoded = decodeMessage(msg.payload); if (decoded) addMessage(decoded)`
LiveCallbackPayload ==
  /\ payload # NoPayload
  /\ decoded = NotDecoded
  /\ decoded' = decodeMessage(payload)
  /\ IF decoded' # Null THEN Deliver(decoded', "live") ELSE UNCHANGED mergeVars
  /\ UNCHANGED <<outgoing, payload>>

(***************************************************************************)
(* sendMessage of ChatRoom and of DirectMessage, in a view that is         *)
(* connected (node is set).  The Input and the Button are disabled while   *)
(* isSending, so the user neither types nor sends while a publish is       *)
(* awaited.                                                                *)
(***************************************************************************)
\* what the user may have typed
InputTexts == {<<>>, <<" ">>, <<"a">>, <<" ", "a", " ">>, <<"b">>}

\* s.trim(): leading and trailing white space removed
RECURSIVE Trim(_)
Trim(s) ==
  IF s = <<>> THEN s
  ELSE IF Head(s) = " " THEN Trim(Tail(s))
  ELSE IF s[Len(s)] = " " THEN Trim(SubSeq(s, 1, Len(s) - 1))
  ELSE s

\* messages of the other users of the topic
NetworkMessages ==
  [timestamp : Timestamps, sender : Senders \ {CurrentUser}, content : {<<"a">>}]

SendInit ==
  /\ inputMessage = <<>>
  /\ isSending = FALSE
  /\ sendPc = "idle"
  /\ wakuMessage = NoMessage
  /\ sendAttempts = 0
  /\ encodeCalls = 0
  /\ publishCalls = 0
  /\ userErrors = 0
  /\ clock = 0
  /\ lastResult = "none"

\* onChange of the Input: setInputMessage(e.target.value)
TypeInput(text) ==
  /\ ~isSending
  /\ text # inputMessage
  /\ inputMessage' = text
  /\ UNCHANGED <<isSending, sendPc, wakuMessage, sendAttempts, encodeCalls, publishCalls,
                 userErrors, clock, lastResult, mergeVars>>

SendMessageCall_NoTrim ==
  /\ ~isSending
  /\ sendAttempts < MaxSends
  /\ sendAttempts' = sendAttempts + 1
  /\ IF inputMessage = <<>> \/ (view = "room" /\ isSending)
       THEN UNCHANGED <<inputMessage, isSending, sendPc, wakuMessage, encodeCalls,
                        publishCalls, clock>>
       ELSE \E now \in Timestamps :
              /\ now > clock
              /\ clock' = now
              /\ isSending' = TRUE
              /\ wakuMessage' = [timestamp |-> now, sender |-> CurrentUser,
                                  content |-> Trim(inputMessage)]
              /\ encodeCalls' = encodeCalls + 1
              /\ publishCalls' = publishCalls + 1
              /\ sendPc' = "awaiting"
              /\ UNCHANGED inputMessage
  /\ UNCHANGED <<userErrors, lastResult, mergeVars>>

\* sendMessage is called (click on Send, or Enter in the Input):
\* `if (!node || !inputMessage.trim() || isSending) return` (DirectMessage
\* without the isSending test); else setIsSending(true), the message is built
\* with Date.now(), encoded, and handed to node.lightPush.send, which is awaited.
\* Successive Date.now() readings of one user differ.
SendMessageCall ==
  /\ ~isSending
  /\ sendAttempts < MaxSends
  /\ sendAttempts' = sendAttempts + 1
  /\ IF Trim(inputMessage) = <<>> \/ (view = "room" /\ isSending)
       THEN UNCHANGED <<inputMessage, isSending, sendPc, wakuMessage, encodeCalls,
                        publishCalls, clock>>
       ELSE \E now \in Timestamps :
              /\ now > clock
              /\ clock' = now
              /\ isSending' = TRUE
              /\ wakuMessage' = [timestamp |-> now, sender |-> CurrentUser,
                                  content |-> Trim(inputMessage)]
              /\ encodeCalls' = encodeCalls + 1
              /\ publishCalls' = publishCalls + 1
              /\ sendPc' = "awaiting"
              /\ UNCHANGED inputMessage
  /\ UNCHANGED <<userErrors, lastResult, mergeVars>>

PublishSucceeds_NoInsert ==
  /\ sendPc = "awaiting"
  /\ inputMessage' = <<>>
  /\ isSending' = FALSE
  /\ sendPc' = "idle"
  /\ lastResult' = "success"
  /\ UNCHANGED <<wakuMessage, sendAttempts, encodeCalls, publishCalls, userErrors, clock,
                 mergeVars>>

\* lightPush.send resolves with result.successes.length > 0:
\* addMessage(wakuMessage), setInputMessage(''), finally setIsSending(false)
PublishSucceeds ==
  /\ sendPc = "awaiting"
  /\ AddMessage(wakuMessage)
  /\ arrivals' = Append(arrivals, <<wakuMessage, "optimistic">>)
  /\ inputMessage' = <<>>
  /\ isSending' = FALSE
  /\ sendPc' = "idle"
  /\ lastResult' = "success"
  /\ UNCHANGED <<view, wakuMessage, sendAttempts, encodeCalls, publishCalls, userErrors, clock>>

PublishFails_ClearInput(how) ==
  /\ sendPc = "awaiting"
  /\ userErrors' = IF view = "dm" THEN userErrors + 1 ELSE userErrors
  /\ inputMessage' = <<>>
  /\ isSending' = FALSE
  /\ sendPc' = "idle"
  /\ lastResult' = how
  /\ UNCHANGED <<wakuMessage, sendAttempts, encodeCalls, publishCalls, clock, mergeVars>>

\* The publish failed.  ChatRoom: console.error (for zero successes also a
\* throw into its own catch), nothing else.  DirectMessage: console.error and
\* alert('Failed to send message. Please try again.').  Both: finally
\* setIsSending(false).
PublishFails(how) ==
  /\ sendPc = "awaiting"
  /\ userErrors' = IF view = "dm" THEN userErrors + 1 ELSE userErrors
  /\ isSending' = FALSE
  /\ sendPc' = "idle"
  /\ lastResult' = how
  /\ UNCHANGED <<inputMessage, wakuMessage, sendAttempts, encodeCalls, publishCalls, clock,
                 mergeVars>>

\* lightPush.send resolves with result.successes.length = 0
PublishZeroSuccesses == PublishFails("zero")

\* lightPush.send rejects
PublishThrows == PublishFails("throw")

\* the live callback delivers a message of another user
NetworkDelivers(msg) ==
  /\ Deliver(msg, "live")
  /\ UNCHANGED sendVars

\* the live callback delivers the user's own published message back, be it
\* before or after the publish is reported
EchoArrives ==
  /\ wakuMessage # NoMessage
  /\ Deliver(wakuMessage, "live")
  /\ UNCHANGED sendVars

(***************************************************************************)
(* The setup effect of ChatRoom and of DirectMessage, in a view whose      *)
(* provider reports a connected node.  setup() of a run is "idle" (not     *)
(* started), "subscribing" (suspended on node.filter.subscribe),           *)
(* "querying" (suspended on node.store.queryWithOrderedCallback), "done"   *)
(* (it returned) or "failed" (the outer catch ran).  React drops state     *)
(* updates of a view that is no longer mounted.                            *)
(***************************************************************************)
Runs == 1..MaxRuns

\* the messages that reach a view through its callbacks
ViewMessages ==
  {[timestamp |-> 100, sender |-> <<"a">>, content |-> "hi"],
   [timestamp |-> 200, sender |-> <<"b">>, content |-> "old"]}

ViewInit ==
  /\ alive = TRUE
  /\ run = 0
  /\ setupPc = [r \in Runs |-> "idle"]
  /\ subState = [r \in Runs |-> "none"]
  /\ historyResult = [r \in Runs |-> "none"]
  /\ cleaned = [r \in Runs |-> FALSE]
  /\ subscriptionRef = 0
  /\ isLoading = TRUE

\* the effect body: setup() is called, does setIsLoading(true), invokes
\* node.filter.subscribe and suspends on it
RunEffect ==
  /\ run' = run + 1
  /\ setupPc' = [setupPc EXCEPT ![run + 1] = "subscribing"]
  /\ isLoading' = TRUE

\* the cleanup the effect returned:
\* `subscriptionRef.current?.(); subscriptionRef.current = null`
RunCleanup ==
  /\ cleaned' = [cleaned EXCEPT ![run] = TRUE]
  /\ subState' = IF subscriptionRef # 0
                   THEN [subState EXCEPT ![subscriptionRef] = "cancelled"]
                   ELSE subState
  /\ subscriptionRef' = 0

\* the view mounts with node set and isConnected true: the effect runs
Mount ==
  /\ alive
  /\ run = 0
  /\ RunEffect
  /\ UNCHANGED <<alive, subState, historyResult, cleaned, subscriptionRef, mergeVars>>

\* spaceId (ChatRoom) or the user pair (DirectMessage) changes in a mounted
\* view: contentTopic, and with it the decoder dependency, is a new one, and
\* React runs the cleanup of the previous run, then the effect again.  Run r
\* of the effect works on the r-th topic of the view.
DependencyChange ==
  /\ alive
  /\ run > 0
  /\ run < MaxRuns
  /\ RunCleanup
  /\ RunEffect
  /\ UNCHANGED <<alive, historyResult, mergeVars>>

\* the view unmounts: React runs the cleanup of the latest run
Unmount ==
  /\ alive
  /\ run > 0
  /\ alive' = FALSE
  /\ RunCleanup
  /\ UNCHANGED <<run, setupPc, historyResult, isLoading, mergeVars>>

\* node.filter.subscribe of run r resolves: the subscription is live, its
\* cancel handle is stored in subscriptionRef.current, and setup() goes on to
\* invoke node.store.queryWithOrderedCallback and suspends on it
SubscribeResolves(r) ==
  /\ setupPc[r] = "subscribing"
  /\ subState' = [subState EXCEPT ![r] = "active"]
  /\ subscriptionRef' = r
  /\ setupPc' = [setupPc EXCEPT ![r] = "querying"]
  /\ UNCHANGED <<alive, run, historyResult, cleaned, isLoading, mergeVars>>

\* node.filter.subscribe of run r rejects: the outer catch logs and clears
\* the loading flag; the history query is not issued
SubscribeRejects(r) ==
  /\ setupPc[r] = "subscribing"
  /\ setupPc' = [setupPc EXCEPT ![r] = "failed"]
  /\ isLoading' = IF alive THEN FALSE ELSE isLoading
  /\ UNCHANGED <<alive, run, subState, historyResult, cleaned, subscriptionRef, mergeVars>>

HistoryEnds_Unsubscribe(r, how) ==
  /\ setupPc[r] = "querying"
  /\ setupPc' = [setupPc EXCEPT ![r] = "done"]
  /\ historyResult' = [historyResult EXCEPT ![r] = how]
  /\ isLoading' = IF alive THEN FALSE ELSE isLoading
  /\ subState' = IF how = "rejected" THEN [subState EXCEPT ![r] = "cancelled"] ELSE subState
  /\ UNCHANGED <<alive, run, cleaned, subscriptionRef, mergeVars>>

\* the history query of run r ends: resolved, or rejected and caught by the
\* inner catch (console.log); either way setIsLoading(false) and setup() returns
HistoryEnds(r, how) ==
  /\ setupPc[r] = "querying"
  /\ setupPc' = [setupPc EXCEPT ![r] = "done"]
  /\ historyResult' = [historyResult EXCEPT ![r] = how]
  /\ isLoading' = IF alive THEN FALSE ELSE isLoading
  /\ UNCHANGED <<alive, run, subState, cleaned, subscriptionRef, mergeVars>>

HistoryResolves(r) == HistoryEnds(r, "resolved")

HistoryRejects(r) == HistoryEnds(r, "rejected")

ViewAddMessage_NoDrop(msg, path) ==
  /\ Len(arrivals) < MaxDeliveries
  /\ arrivals' = Append(arrivals, <<msg, path>>)
  /\ AddMessage(msg)
  /\ UNCHANGED view

\* a callback of the view calls addMessage(decoded): the callbacks test no
\* mounted flag, and setMessages applies to a mounted view only (React ignores
\* a state update of an unmounted component)
ViewAddMessage(msg, path) ==
  /\ Len(arrivals) < MaxDeliveries
  /\ arrivals' = Append(arrivals, <<msg, path>>)
  /\ IF alive THEN AddMessage(msg) ELSE UNCHANGED messages
  /\ UNCHANGED view

\* the live callback of the subscription of run r fires
SubscriptionDelivers(r, msg) ==
  /\ subState[r] = "active"
  /\ ViewAddMessage(msg, "live")
  /\ UNCHANGED viewVars

\* the callback of the history query of run r fires
HistoryDelivers(r, msg) ==
  /\ setupPc[r] = "querying"
  /\ ViewAddMessage(msg, "history")
  /\ UNCHANGED viewVars

(***************************************************************************)
(* WakuProvider: one provider from its mount to its unmount, with one      *)
(* child view (a ChatRoom or a DirectMessage) under it.  The code of       *)
(* initWaku after `await getWakuNode()` runs in the step in which the call *)
(* ends: it is the continuation of that promise, and no React commit can   *)
(* come between the two.                                                   *)
(***************************************************************************)
ProviderInit ==
  /\ mounted = FALSE
  /\ node = 0
  /\ isConnecting = TRUE
  /\ error = "null"
  /\ initPc = "idle"

\* `isConnected: !!node && !isConnecting` of the context value
IsConnected == node # 0 /\ ~isConnecting

InitWakuEnds_NoFinally(c, isMounted) ==
  /\ initPc' = "done"
  /\ IF ~isMounted THEN UNCHANGED <<node, isConnecting, error>>
     ELSE IF gpc'[c] = "resolved"
       THEN /\ node' = wakuNode'
            /\ error' = "null"
            /\ isConnecting' = FALSE
       ELSE /\ error' = "Failed to connect to Waku"
            /\ UNCHANGED <<node, isConnecting>>

\* initWaku after `await getWakuNode()` for the call c that ended in this
\* step: setNode and setError(null) when it resolved, the catch and setError
\* when it rejected, the finally and setIsConnecting(false) in both cases,
\* each only `if (mounted)`
InitWakuEnds(c, isMounted) ==
  /\ initPc' = "done"
  /\ IF ~isMounted THEN UNCHANGED <<node, isConnecting, error>>
     ELSE IF gpc'[c] = "resolved"
       THEN /\ node' = wakuNode'
            /\ error' = "null"
            /\ isConnecting' = FALSE
       ELSE /\ error' = "Failed to connect to Waku"
            /\ isConnecting' = FALSE
            /\ UNCHANGED node

\* the provider's effect runs: `mounted = true`, initWaku does
\* setIsConnecting(true) and calls getWakuNode
ProviderMount ==
  /\ initPc = "idle"
  /\ mounted' = TRUE
  /\ \E c \in Calls :
       /\ GetWakuNodeCall(c)
       /\ IF gpc'[c] \in {"resolved", "rejected"}
            THEN InitWakuEnds(c, TRUE)
            ELSE /\ initPc' = "awaiting"
                 /\ isConnecting' = TRUE
                 /\ UNCHANGED <<node, error>>

\* a step of the provider's getWakuNode call, and initWaku going on when the
\* step ended the call
InitWakuAwaits(c) ==
  /\ UNCHANGED mounted
  /\ IF initPc = "awaiting" /\ gpc'[c] \in {"resolved", "rejected"}
       THEN InitWakuEnds(c, mounted)
       ELSE UNCHANGED <<node, isConnecting, error, initPc>>

\* the child's cleanup when it unmounts with the provider
ChildUnmount ==
  IF run > 0 THEN Unmount
  ELSE /\ alive' = FALSE
       /\ UNCHANGED <<run, setupPc, subState, historyResult, cleaned, subscriptionRef,
                      isLoading, mergeVars>>

\* the provider unmounts: the child goes first, then the provider's cleanup
\* does `mounted = false; stopWakuNode()`
ProviderUnmount ==
  /\ mounted
  /\ mounted' = FALSE
  /\ ChildUnmount
  /\ \E s \in Stops : StopWakuNodeCall(s)
  /\ UNCHANGED <<node, isConnecting, error, initPc>>

\* the child's setup effect: `if (!node || !isConnected) return`, so setup()
\* is first called in the render in which the provider reports a connected node
ChildEffect ==
  /\ node # 0
  /\ IsConnected
  /\ Mount

\* the child's sendMessage: `if (!node || ...) return`
ChildSendMessage ==
  /\ alive
  /\ IF node = 0
       THEN /\ ~isSending
            /\ sendAttempts < MaxSends
            /\ sendAttempts' = sendAttempts + 1
            /\ UNCHANGED <<inputMessage, isSending, sendPc, wakuMessage, encodeCalls,
                           publishCalls, userErrors, clock, lastResult, mergeVars>>
       ELSE SendMessageCall

(***************************************************************************)
(* Specifications.                                                         *)
(***************************************************************************)
\* the rest of the state, for a step of one part of the program
SessionOnly ==
  UNCHANGED <<mergeVars, topicVars, parseVars, codecVars, sendVars, viewVars, providerVars>>
MergeOnly ==
  UNCHANGED <<sessionVars, topicVars, parseVars, codecVars, sendVars, viewVars, providerVars>>
TopicOnly ==
  UNCHANGED <<sessionVars, mergeVars, parseVars, codecVars, sendVars, viewVars, providerVars>>
ParseOnly ==
  UNCHANGED <<sessionVars, mergeVars, topicVars, codecVars, sendVars, viewVars, providerVars>>
CodecOnly ==
  UNCHANGED <<sessionVars, topicVars, parseVars, sendVars, viewVars, providerVars>>
SendOnly ==
  UNCHANGED <<sessionVars, topicVars, parseVars, codecVars, viewVars, providerVars>>
ViewOnly ==
  UNCHANGED <<sessionVars, topicVars, parseVars, codecVars, sendVars, providerVars>>

\* the session alone: calls of getWakuNode and stopWakuNode in every interleaving
SessionNext ==
  \/ \E c \in Calls : GetWakuNodeCall(c) /\ SessionOnly
  \/ \E c \in Calls : CreateLightNodeResolve(c) /\ SessionOnly
  \/ \E c \in Calls : CreateLightNodeReject(c) /\ SessionOnly
  \/ \E c \in Calls : StartResolve(c) /\ SessionOnly
  \/ \E c \in Calls : StartReject(c) /\ SessionOnly
  \/ \E c \in Calls : PeerWaitResolve(c) /\ SessionOnly
  \/ \E c \in Calls : PeerWaitTimeout(c) /\ SessionOnly
  \/ \E c \in Calls : PeerWaitReject(c) /\ SessionOnly
  \/ \E s \in Stops : StopWakuNodeCall(s) /\ SessionOnly
  \/ \E s \in Stops : StopResolve(s) /\ SessionOnly
  \/ \E s \in Stops : StopReject(s) /\ SessionOnly

Init ==
  /\ SessionInit
  /\ view = "none"
  /\ MergeInit
  /\ idA = <<>>
  /\ idB = <<>>
  /\ TopicInit
  /\ ParseInit
  /\ CodecInit
  /\ SendInit
  /\ ViewInit
  /\ ProviderInit

Spec == Init /\ [][SessionNext]_vars

\* what the event loop guarantees to a getWakuNode call, given that
\* createLightNode and start() complete: the setTimeout of the race fires
\* 30 s after the peer wait began unless the race was settled before, and
\* waitForRemotePeer handed null fails at once
CallProgress(c) ==
  /\ WF_vars((CreateLightNodeResolve(c) \/ CreateLightNodeReject(c)) /\ SessionOnly)
  /\ WF_vars((StartResolve(c) \/ StartReject(c)) /\ SessionOnly)
  /\ WF_vars((PeerWaitTimeout(c) \/ (gwaitOn[c] = 0 /\ PeerWaitReject(c))) /\ SessionOnly)

\* the session with createLightNode and start() completing and the timer running
FairSpec == Init /\ [][SessionNext]_vars /\ \A c \in Calls : CallProgress(c)

\* one message list, of a ChatRoom or of a DirectMessage, fed by its three paths
MergeNext ==
  \/ \E msg \in WakuMessages : LiveCallback(msg) /\ MergeOnly
  \/ \E msg \in WakuMessages : HistoryCallback(msg) /\ MergeOnly
  \/ \E msg \in WakuMessages : OptimisticInsert(msg) /\ MergeOnly

MergeSpecInit ==
  /\ SessionInit
  /\ view \in {"room", "dm"}
  /\ MergeInit
  /\ idA = <<>>
  /\ idB = <<>>
  /\ TopicInit
  /\ ParseInit
  /\ CodecInit
  /\ SendInit
  /\ ViewInit
  /\ ProviderInit

MergeSpec == MergeSpecInit /\ [][MergeNext]_vars

\* the topic functions, applied to every pair of identifiers
TopicNext ==
  \/ \E v \in {1, 2} : DirectMessageTopic(v) /\ TopicOnly
  \/ ChatRoomTopic /\ TopicOnly
  \/ ParseSpaceTopic /\ TopicOnly

TopicSpecInit ==
  /\ SessionInit
  /\ view = "none"
  /\ MergeInit
  /\ idA \in Ids
  /\ idB \in Ids
  /\ TopicInit
  /\ ParseInit
  /\ CodecInit
  /\ SendInit
  /\ ViewInit
  /\ ProviderInit

TopicSpec == TopicSpecInit /\ [][TopicNext]_vars

\* parseContentTopic applied to well-formed and to malformed strings
ParseNext ==
  \/ ParseAnyTopic /\ ParseOnly

ParseSpecInit ==
  /\ SessionInit
  /\ view = "none"
  /\ MergeInit
  /\ idA = <<>>
  /\ idB = <<>>
  /\ TopicInit
  /\ anyTopic \in AnyTopics
  /\ anyParsed = NotParsed
  /\ CodecInit
  /\ SendInit
  /\ ViewInit
  /\ ProviderInit

ParseSpec == ParseSpecInit /\ [][ParseNext]_vars

(***************************************************************************)
(* Properties of the session.                                              *)
(***************************************************************************)
NoStopCalled == \A s \in Stops : spc[s] = "idle"

\* C1: with no teardown in between, whatever the interleaving of getWakuNode
\* calls, createLightNode is invoked at most once and all calls resolve with
\* one and the same client.
C1_SingleFlight ==
  NoStopCalled => (createCalls <= 1 /\ Cardinality(returned) <= 1)

\* C2: once a getWakuNode call has resolved and as long as stopWakuNode has not
\* been called, a call issued now resolves at once, with the client the earlier
\* calls resolved with, and neither creates nor starts a client.
C2_ReuseAfterCompletion ==
  [][\A c \in Calls :
       (gpc[c] = "idle" /\ gpc'[c] # "idle" /\ returned # {} /\ NoStopCalled')
         => /\ gpc'[c] = "resolved"
            /\ returned' = returned
            /\ Cardinality(returned) = 1
            /\ createCalls' = createCalls
            /\ started' = started]_vars

\* C3: when the peer wait of a call ends by the timeout or by a rejection, the
\* call resolves (it does not reject) with the module-level client, which the
\* step leaves as it was; with no teardown so far that client is not null.
C3_PeerWaitFailureResolves ==
  [][\A c \in Calls :
       (gpc[c] = "wait" /\ gpc'[c] # "wait" /\ lastWait' \in {"timeout", "error"})
         => /\ gpc'[c] = "resolved"
            /\ wakuNode' = wakuNode
            /\ returned' = returned \cup {wakuNode}
            /\ (NoStopCalled => wakuNode # 0)]_vars

\* a peer wait timed out, no teardown happened, and the calls resolved with
\* the client that is still the module-level one
C3_Witness ==
  /\ lastWait = "timeout"
  /\ NoStopCalled
  /\ wakuNode # 0
  /\ returned = {wakuNode}

NoStopFailed == \A s \in Stops : spc[s] # "failed"

SessionState ==
  IF \E c \in Calls : gpc[c] \in {"create", "start", "wait"} THEN "Connecting"
  ELSE IF wakuNode # 0 THEN "Connected"
  ELSE "Disconnected"

\* C20: the session state changes only from Disconnected to Connecting, from
\* Connecting to Connected, and from Connected to Disconnected, the last by
\* the completion of a stopWakuNode call.
C20_StateMachine ==
  [][\/ SessionState' = SessionState
     \/ SessionState = "Disconnected" /\ SessionState' = "Connecting"
     \/ SessionState = "Connecting" /\ SessionState' = "Connected"
     \/ /\ SessionState = "Connected" /\ SessionState' = "Disconnected"
        /\ \E s \in Stops : spc[s] = "stopping" /\ spc'[s] = "done"]_vars

(***************************************************************************)
(* Properties of the message list.                                         *)
(***************************************************************************)
\* the identity key of an entry of the list
KeyOf(entry) ==
  IF view = "room" THEN IdentityKey(entry.timestamp, entry.author)
                   ELSE IdentityKey(entry.timestamp, entry.sender)

\* the entry as the message it was made from
AsMessage(entry) ==
  IF view = "room"
    THEN [timestamp |-> entry.timestamp, sender |-> entry.author, content |-> entry.content]
    ELSE entry

KeyCount(key) == Cardinality({i \in 1..Len(messages) : KeyOf(messages[i]) = key})

\* C5: no two entries of the list have the same identity key, and every
\* message handed to addMessage, by whatever path and however often, has an
\* entry with its key (hence exactly one).
C5_UniqueKeys ==
  LET keys == [i \in 1..Len(messages) |-> KeyOf(messages[i])]
  IN /\ \A i, j \in 1..Len(messages) : i < j => keys[i] # keys[j]
     /\ \A n \in 1..Len(arrivals) :
          \E i \in 1..Len(messages) :
            keys[i] = IdentityKey(arrivals[n][1].timestamp, arrivals[n][1].sender)

\* history delivered a message that the live path had delivered before
C5_Witness ==
  \E n, k \in 1..Len(arrivals) :
    /\ n < k
    /\ arrivals[n][2] = "live"
    /\ arrivals[k][2] = "history"
    /\ arrivals[n][1] = arrivals[k][1]
    /\ KeyCount(IdentityKey(arrivals[n][1].timestamp, arrivals[n][1].sender)) = 1

\* C6: the list is sorted in non-decreasing order of timestamp.
C6_Sorted ==
  \A i \in 1..(Len(messages) - 1) : messages[i].timestamp <= messages[i + 1].timestamp

\* timestamps 300, 100, 200 were inserted in that order and the list reads
\* 100, 200, 300
C6_Witness ==
  /\ Len(arrivals) = 3
  /\ [n \in 1..3 |-> arrivals[n][1].timestamp] = <<300, 100, 200>>
  /\ {arrivals[n][2] : n \in 1..3} = Paths
  /\ [i \in 1..Len(messages) |-> messages[i].timestamp] = <<100, 200, 300>>

KeyPresent(msg) == KeyCount(IdentityKey(msg.timestamp, msg.sender)) > 0

\* C7: an addMessage whose message has an identity key already in the list
\* leaves the list as it is, whatever content the message carries; the same
\* message inserted twice into an empty list gives a list of one entry.
C7_DuplicateIsNoOp ==
  [][Len(arrivals') = Len(arrivals) + 1
       => /\ KeyPresent(arrivals'[Len(arrivals')][1]) => messages' = messages
          /\ (Len(arrivals') = 2 /\ arrivals'[1][1] = arrivals'[2][1])
               => Len(messages') = 1]_vars

\* a message arrived twice with different contents: one entry, the first content
C7_Witness ==
  /\ Len(arrivals) = 2
  /\ arrivals[1][1].timestamp = arrivals[2][1].timestamp
  /\ arrivals[1][1].sender = arrivals[2][1].sender
  /\ arrivals[1][1].content # arrivals[2][1].content
  /\ Len(messages) = 1
  /\ messages[1].content = arrivals[1][1].content

\* the messages delivered so far, as a collection
Delivered == {arrivals[n][1] : n \in 1..Len(arrivals)}

\* the orders in which a collection can be delivered, each message once
DeliveryOrders(S) ==
  {seq \in [1..Cardinality(S) -> S] : {seq[i] : i \in 1..Cardinality(S)} = S}

\* the list after the messages of seq were handed to addMessage in turn
RECURSIVE MergeAll(_)
MergeAll(seq) ==
  IF seq = <<>> THEN <<>>
  ELSE LET prev == MergeAll(SubSeq(seq, 1, Len(seq) - 1))
           msg == seq[Len(seq)]
       IN IF view = "room" THEN RoomAddMessage(prev, msg) ELSE DmAddMessage(prev, msg)

DistinctTimestamps(S) == \A x, y \in S : x # y => x.timestamp # y.timestamp
DistinctKeys(S) ==
  \A x, y \in S : x # y => (x.timestamp # y.timestamp \/ x.sender # y.sender)

\* C8, as claimed: for a collection of messages with pairwise distinct
\* identity keys (different senders may share a timestamp), the list is the
\* one that every delivery order of the collection gives, as a sequence with
\* its contents, however often each message was delivered.
C8_Commutative ==
  DistinctKeys(Delivered)
    => \A seq \in DeliveryOrders(Delivered) : MergeAll(seq) = messages

\* C8, amended: the merge is idempotent, and commutative up to the order of
\* entries that share a timestamp.  For a collection with pairwise distinct
\* timestamps every delivery order, with any duplication, gives the same
\* sequence; for a collection with pairwise distinct identity keys every
\* delivery order gives the same entries, one per message.
C8_CommutativeUpToTies ==
  /\ DistinctTimestamps(Delivered)
       => \A seq \in DeliveryOrders(Delivered) : MergeAll(seq) = messages
  /\ DistinctKeys(Delivered)
       => /\ {AsMessage(messages[i]) : i \in 1..Len(messages)} = Delivered
          /\ Len(messages) = Cardinality(Delivered)

\* two messages with different timestamps arrived latest first, one of them
\* twice, and the list holds them once each, earliest first
C8_Witness ==
  /\ Len(arrivals) = 3
  /\ arrivals[1][1].timestamp > arrivals[2][1].timestamp
  /\ arrivals[3][1] = arrivals[1][1]
  /\ Len(messages) = 2
  /\ AsMessage(messages[1]) = arrivals[2][1]
  /\ AsMessage(messages[2]) = arrivals[1][1]

\* the position in arrivals of the first delivery of the entry's message
FirstArrival(entry) ==
  CHOOSE n \in 1..Len(arrivals) :
    /\ IdentityKey(arrivals[n][1].timestamp, arrivals[n][1].sender) = KeyOf(entry)
    /\ \A k \in 1..(n - 1) :
         IdentityKey(arrivals[k][1].timestamp, arrivals[k][1].sender) # KeyOf(entry)

\* C23: two entries of the list with the same timestamp stand in the order
\* in which their messages were first handed to addMessage.
C23_StableTies ==
  \A i, j \in 1..Len(messages) :
    (i < j /\ messages[i].timestamp = messages[j].timestamp)
      => FirstArrival(messages[i]) < FirstArrival(messages[j])

\* sender b's message of time 200 arrived before sender a's of the same time,
\* an earlier message arrived last and was sorted in front: b still precedes a
C23_Witness ==
  /\ Len(arrivals) = 3
  /\ [n \in 1..3 |-> arrivals[n][1].timestamp] = <<200, 200, 100>>
  /\ [n \in 1..3 |-> arrivals[n][1].sender] = <<(<<"b">>), (<<"a">>), (<<"a">>)>>
  /\ Len(messages) = 3
  /\ [i \in 1..3 |-> AsMessage(messages[i]).sender] = <<(<<"a">>), (<<"b">>), (<<"a">>)>>

(***************************************************************************)
(* Properties of the topic functions.                                      *)
(***************************************************************************)
\* C9: the two participants of a conversation, each calling
\* getDirectMessageTopic with itself first, get the same topic.
C9_DmTopicSymmetric ==
  (dmTopic[1] # NotComputed /\ dmTopic[2] # NotComputed) => dmTopic[1] = dmTopic[2]

\* both views of a conversation between two different users have their topic
C9_Witness ==
  /\ idA # idB
  /\ StringLess(idB, idA)
  /\ dmTopic[1] # NotComputed
  /\ dmTopic[1] = dmTopic[2]

\* C10: parsing the topic of a space gives type 'space' and the space id.
C10_SpaceRoundTrip ==
  parsed # NotParsed => parsed = [type |-> "space", id |-> idA]

\* a payload travelling from encodeMessage, or from elsewhere, to the live
\* callback of a view
CodecNext ==
  \/ SenderEncodes /\ CodecOnly
  \/ LiveCallbackPayload /\ CodecOnly

CodecSpecInit ==
  /\ SessionInit
  /\ view \in {"room", "dm"}
  /\ MergeInit
  /\ idA = <<>>
  /\ idB = <<>>
  /\ TopicInit
  /\ ParseInit
  /\ decoded = NotDecoded
  /\ \/ outgoing \in CodecMessages /\ payload = NoPayload
     \/ outgoing = NoMessage /\ payload \in ForeignPayloads \cup {Undefined}
  /\ SendInit
  /\ ViewInit
  /\ ProviderInit

CodecSpec == CodecSpecInit /\ [][CodecNext]_vars

\* a connected ChatRoom or DirectMessage whose user types and sends, while
\* messages of the topic come in
SendNext ==
  \/ \E text \in InputTexts : TypeInput(text) /\ SendOnly
  \/ SendMessageCall /\ SendOnly
  \/ PublishSucceeds /\ SendOnly
  \/ PublishZeroSuccesses /\ SendOnly
  \/ PublishThrows /\ SendOnly
  \/ \E msg \in NetworkMessages : NetworkDelivers(msg) /\ SendOnly
  \/ EchoArrives /\ SendOnly

SendSpecInit ==
  /\ SessionInit
  /\ view \in {"room", "dm"}
  /\ MergeInit
  /\ idA = <<>>
  /\ idB = <<>>
  /\ TopicInit
  /\ ParseInit
  /\ CodecInit
  /\ SendInit
  /\ ViewInit
  /\ ProviderInit

SendSpec == SendSpecInit /\ [][SendNext]_vars

\* the steps of the session under a provider leave the views' state alone
ProviderOnly == UNCHANGED <<mergeVars, topicVars, parseVars, codecVars, sendVars, viewVars>>

\* one WakuProvider with its child, over the session
ProviderNext ==
  \/ ProviderMount /\ ProviderOnly
  \/ \E c \in Calls : CreateLightNodeResolve(c) /\ InitWakuAwaits(c) /\ ProviderOnly
  \/ \E c \in Calls : CreateLightNodeReject(c) /\ InitWakuAwaits(c) /\ ProviderOnly
  \/ \E c \in Calls : StartResolve(c) /\ InitWakuAwaits(c) /\ ProviderOnly
  \/ \E c \in Calls : StartReject(c) /\ InitWakuAwaits(c) /\ ProviderOnly
  \/ \E c \in Calls : PeerWaitResolve(c) /\ InitWakuAwaits(c) /\ ProviderOnly
  \/ \E c \in Calls : PeerWaitTimeout(c) /\ InitWakuAwaits(c) /\ ProviderOnly
  \/ \E c \in Calls : PeerWaitReject(c) /\ InitWakuAwaits(c) /\ ProviderOnly
  \/ ProviderUnmount /\ UNCHANGED <<topicVars, parseVars, codecVars, sendVars>>
  \/ \E s \in Stops : StopResolve(s) /\ SessionOnly
  \/ \E s \in Stops : StopReject(s) /\ SessionOnly
  \/ ChildEffect /\ ViewOnly
  \/ \E r \in Runs : SubscribeResolves(r) /\ ViewOnly
  \/ \E r \in Runs : SubscribeRejects(r) /\ ViewOnly
  \/ \E r \in Runs : HistoryResolves(r) /\ ViewOnly
  \/ \E r \in Runs : HistoryRejects(r) /\ ViewOnly
  \/ \E text \in InputTexts : (alive /\ TypeInput(text)) /\ SendOnly
  \/ ChildSendMessage /\ SendOnly
  \/ PublishSucceeds /\ SendOnly
  \/ PublishZeroSuccesses /\ SendOnly
  \/ PublishThrows /\ SendOnly

ProviderSpecInit ==
  /\ SessionInit
  /\ view \in {"room", "dm"}
  /\ MergeInit
  /\ idA = <<>>
  /\ idB = <<>>
  /\ TopicInit
  /\ ParseInit
  /\ CodecInit
  /\ SendInit
  /\ ViewInit
  /\ ProviderInit

ProviderSpec == ProviderSpecInit /\ [][ProviderNext]_vars

\* one view from its mount to its unmount, with the network completing its
\* subscribe and history calls and firing its callbacks in every order
ViewNext ==
  \/ Mount /\ ViewOnly
  \/ DependencyChange /\ ViewOnly
  \/ Unmount /\ ViewOnly
  \/ \E r \in Runs : SubscribeResolves(r) /\ ViewOnly
  \/ \E r \in Runs : SubscribeRejects(r) /\ ViewOnly
  \/ \E r \in Runs : HistoryResolves(r) /\ ViewOnly
  \/ \E r \in Runs : HistoryRejects(r) /\ ViewOnly
  \/ \E r \in Runs, msg \in ViewMessages : SubscriptionDelivers(r, msg) /\ ViewOnly
  \/ \E r \in Runs, msg \in ViewMessages : HistoryDelivers(r, msg) /\ ViewOnly

ViewSpecInit ==
  /\ SessionInit
  /\ view \in {"room", "dm"}
  /\ MergeInit
  /\ idA = <<>>
  /\ idB = <<>>
  /\ TopicInit
  /\ ParseInit
  /\ CodecInit
  /\ SendInit
  /\ ViewInit
  /\ ProviderInit

ViewSpec == ViewSpecInit /\ [][ViewNext]_vars

\* C11: for every string that is not a value of the topic constructors,
\* parseContentTopic returns type 'unknown' with id ''.
C11_MalformedUnknown ==
  (anyParsed # NotParsed /\ ~IsConstructed(anyTopic)) => anyParsed = Unknown

\* the deviations that parseContentTopic does check: a malformed string was
\* parsed as 'unknown'
C11_Rejected ==
  anyParsed = Unknown /\ ~IsConstructed(anyTopic)

(***************************************************************************)
(* Properties of the codec.                                                *)
(***************************************************************************)
\* C12: what decodeMessage returns for the payload that encodeMessage made of
\* a message is not null and equals the message in timestamp, sender and
\* content.
C12_RoundTrip ==
  (outgoing # NoMessage /\ decoded # NotDecoded)
    => /\ decoded # Null
       /\ decoded.timestamp = outgoing.timestamp
       /\ decoded.sender = outgoing.sender
       /\ decoded.content = outgoing.content

\* a message with a five-byte timestamp and a two-byte character came back
C12_Witness ==
  /\ outgoing # NoMessage
  /\ outgoing.timestamp = 1700000000
  /\ outgoing.sender = <<"b", "U+E9">>
  /\ decoded = outgoing

\* C13: decodeMessage(undefined) is null, and for a payload that encodeMessage
\* did not make decodeMessage returns null and nothing is inserted into the
\* message list.
C13_ForeignDropped ==
  (outgoing = NoMessage /\ decoded # NotDecoded)
    => /\ decoded = Null
       /\ messages = <<>>

(***************************************************************************)
(* Properties of sendMessage.                                              *)
(***************************************************************************)
\* the step is a call of sendMessage
IsSendCall == sendAttempts' = sendAttempts + 1

\* the step is the end of an awaited publish
IsPublishEnd == sendPc = "awaiting" /\ sendPc' = "idle"

\* C14: a sendMessage call with empty or whitespace-only input encodes
\* nothing, publishes nothing, and leaves the message list, the input text and
\* the sending flag as they were.
C14_BlankInputIgnored ==
  [][(IsSendCall /\ Trim(inputMessage) = <<>>)
       => /\ encodeCalls' = encodeCalls
          /\ publishCalls' = publishCalls
          /\ messages' = messages
          /\ inputMessage' = inputMessage
          /\ isSending' = isSending]_vars

\* sendMessage was called on a whitespace-only input, and nothing was encoded
\* or published
C14_Witness ==
  /\ sendAttempts = 1
  /\ inputMessage = <<" ">>
  /\ encodeCalls = 0
  /\ publishCalls = 0
  /\ ~isSending

\* C15: when a publish ends with at least one success, the message list after
\* that step has an entry with the timestamp, the sender and the trimmed
\* content of the message sent, and the input text is empty.
C15_OptimisticInsert ==
  [][(IsPublishEnd /\ lastResult' = "success")
       => /\ wakuMessage.content = Trim(inputMessage)
          /\ \E i \in 1..Len(messages') : AsMessage(messages'[i]) = wakuMessage
          /\ inputMessage' = <<>>]_vars

\* a message typed with surrounding blanks was published, and the list holds
\* it, trimmed, though nothing has come from the network
C15_Witness ==
  /\ lastResult = "success"
  /\ inputMessage = <<>>
  /\ Len(arrivals) = 1
  /\ arrivals[1][2] = "optimistic"
  /\ Len(messages) = 1
  /\ AsMessage(messages[1]) = wakuMessage
  /\ wakuMessage.content = <<"a">>

\* C16: when a publish ends with zero successes or by throwing, the input text
\* and the message list are as before, the sending flag is false, and
\* lightPush.send is not called again: it is only ever called by a step that
\* is a sendMessage call.
C16_FailureLeavesInput ==
  [][/\ (IsPublishEnd /\ lastResult' \in {"zero", "throw"})
          => /\ inputMessage' = inputMessage
             /\ messages' = messages
             /\ publishCalls' = publishCalls
             /\ isSending' = FALSE
     /\ publishCalls' # publishCalls
          => (IsSendCall /\ publishCalls' = publishCalls + 1)]_vars

\* the one publish of the one sendMessage call failed: the text is still in
\* the input, the list is empty, the flag is down
C16_Witness ==
  /\ lastResult \in {"zero", "throw"}
  /\ sendAttempts = 1
  /\ publishCalls = 1
  /\ inputMessage = <<" ", "a", " ">>
  /\ messages = <<>>
  /\ ~isSending

\* C17: when a publish ends with zero successes or by throwing, a failure
\* indication is shown to the user.
C17_FailureSurfaced ==
  [][(IsPublishEnd /\ lastResult' \in {"zero", "throw"})
       => userErrors' = userErrors + 1]_vars

(***************************************************************************)
(* Properties of the setup effect.                                         *)
(***************************************************************************)
\* C18: the live subscription of a run whose cleanup has been executed
\* (unmount, or dependency change) is not active, whatever the order of
\* subscribe completion and cleanup.
C18_NoLeakedSubscription ==
  \A r \in Runs : cleaned[r] => subState[r] # "active"

\* C19: when the history query of a run rejects, setup() returns normally,
\* the subscriptions and the stored cancel handle are as before, the loading
\* flag of the mounted view is false; and a message that the live callback of
\* a run delivers to the mounted view after its history query was rejected
\* has an entry in the message list.
C19_HistoryFailureContained ==
  [][\A r \in Runs :
       /\ (setupPc[r] = "querying" /\ historyResult'[r] = "rejected")
            => /\ setupPc'[r] = "done"
               /\ subState' = subState
               /\ subscriptionRef' = subscriptionRef
               /\ alive => ~isLoading'
       /\ (/\ historyResult[r] = "rejected" /\ subState[r] = "active" /\ alive
           /\ Len(arrivals') = Len(arrivals) + 1
           /\ arrivals'[Len(arrivals')][2] = "live")
            => \E i \in 1..Len(messages') :
                 AsMessage(messages'[i]) = arrivals'[Len(arrivals')][1]]_vars

\* the history query of the mounted view was rejected, its subscription is
\* still active and registered for cleanup, the view is not loading, and a
\* message that came live afterwards is in the list
C19_Witness ==
  /\ alive
  /\ run = 1
  /\ historyResult[1] = "rejected"
  /\ setupPc[1] = "done"
  /\ subState[1] = "active"
  /\ subscriptionRef = 1
  /\ ~isLoading
  /\ Len(arrivals) = 1
  /\ arrivals[1][2] = "live"
  /\ Len(messages) = 1

C22_HistoryIssuedWithSubscribe ==
  \A r \in Runs : setupPc[r] # "idle" => setupPc[r] \in {"querying", "done"}

\* C29: the topic of a conversation between two users with non-empty
\* identifiers is the topic of no other unordered pair of non-empty
\* identifiers, identifiers that contain "-" included.
C29_DmTopicInjective ==
  (dmTopic[1] # NotComputed /\ idA # <<>> /\ idB # <<>>)
    => \A x, y \in Ids \ {<<>>} :
         getDirectMessageTopic(x, y) = dmTopic[1] => {x, y} = {idA, idB}

\* C30: when the topic of a mounted view changes, the entries of the
\* previous topic are gone from the list after the change; and a callback
\* that fires while the current run has neither an active subscription nor a
\* history query in flight, a callback of a previous topic therefore, leaves
\* the list as it is.
C30_CurrentTopicOnly ==
  [][/\ (alive /\ run > 0 /\ run' # run) => messages' = <<>>
     /\ (/\ alive
         /\ Len(arrivals') = Len(arrivals) + 1
         /\ subState[run] # "active"
         /\ setupPc[run] # "querying")
          => messages' = messages]_vars

(***************************************************************************)
(* Further properties of the session.                                      *)
(***************************************************************************)
\* C24: no getWakuNode call stays suspended forever on createLightNode, on
\* start() or on the peer wait, given that its createLightNode and start()
\* complete; no peer needs to appear.  (A call that has ended stays ended.)
C24_GetWakuNodeReturns ==
  \A c \in Calls : []<>(gpc[c] \notin {"create", "start", "wait"})

\* the only call made went through createLightNode and start(), no peer
\* appeared, and the call returned the client when the timer fired
C24_Witness ==
  /\ createCalls = 1
  /\ gpc[1] = "resolved"
  /\ gpc[2] = "idle"
  /\ lastWait = "timeout"
  /\ returned = {1}
  /\ wakuNode = 1

\* no getWakuNode call and no stop() is pending
Quiescent ==
  /\ \A c \in Calls : gpc[c] \notin {"create", "start", "wait"}
  /\ \A s \in Stops : spc[s] # "stopping"

\* C26: when stopWakuNode was called while a getWakuNode call was in
\* progress and nothing is pending any more, every client that was started
\* is the module-level client or has had stop() invoked on it.
C26_NoOrphanedClient ==
  (stopRaced /\ Quiescent)
    => \A k \in started : k = wakuNode \/ stopCalls[k] > 0

\* C27: the client a getWakuNode call returns has not had stop() invoked on it.
C27_NeverReturnsStopped ==
  [][\A c \in Calls :
       (gpc[c] # "resolved" /\ gpc'[c] = "resolved" /\ wakuNode # 0)
         => stopCalls[wakuNode] = 0]_vars

\* C28: when createLightNode or start() rejects inside a getWakuNode call,
\* the module-level client is null afterwards.
C28_FailedConnectLeavesNull ==
  [][\A c \in Calls :
       (gpc[c] \in {"create", "start"} /\ gpc'[c] = "rejected") => wakuNode' = 0]_vars

(***************************************************************************)
(* Properties of WakuProvider.                                             *)
(***************************************************************************)
\* C25: when the getWakuNode call of the mounted provider rejects, the
\* provider has the error recorded, isConnecting false and node null in the
\* same step; and while the error is recorded the provider reports no
\* connection, its child stays rendered while the provider is mounted, and
\* the child has run no setup (no subscribe, no history query) and no publish.
C25_ConnectFailureContained ==
  /\ [][\A c \in Calls :
          (mounted /\ initPc = "awaiting" /\ gpc[c] # "rejected" /\ gpc'[c] = "rejected")
            => (error' # "null" /\ ~isConnecting' /\ node' = 0)]_vars
  /\ [](error # "null"
          => /\ node = 0
             /\ ~isConnecting
             /\ ~IsConnected
             /\ mounted => alive
             /\ run = 0
             /\ \A r \in Runs : setupPc[r] = "idle"
             /\ publishCalls = 0)

\* start() rejected under the mounted provider: the error is recorded, and a
\* sendMessage of the child with text in its input was ignored
C25_Witness ==
  /\ mounted
  /\ gpc[1] = "rejected"
  /\ started = {1}
  /\ error # "null"
  /\ alive
  /\ Trim(inputMessage) # <<>>
  /\ sendAttempts = 1
  /\ publishCalls = 0
  /\ run = 0

====
